---- MODULE Spec2Model ----
(***************************************************************************)
(* A model of knowledge/rag_manager.py: the EmbeddingCache (an in-memory   *)
(* dictionary with two companion files) and the RAGManager (the corpus     *)
(* loader and the three-strategy search).                                  *)
(*                                                                         *)
(* Texts are sequences of one-character strings, so that lower(), split()  *)
(* and the substring test "w in s" are computed as Python computes them.   *)
(* Scores are exact rationals <<numerator, denominator>> with a positive   *)
(* denominator; embedding vectors are integer pairs of integral norm, so   *)
(* that a cosine similarity is such a rational too.                        *)
(***************************************************************************)
EXTENDS Integers, Sequences, FiniteSets, TLC

VARIABLES
    cache,            \* EmbeddingCache.cache: digest of a text -> vector
    metadata,         \* EmbeddingCache.metadata
    cache_file,       \* embeddings_cache.pkl: [state, data]
    metadata_file,    \* cache_metadata.json: [state, data]
    kb_files,         \* the *.json files under knowledge_base_dir at the last load
    api_docs,         \* RAGManager.api_docs
    embedding_model,  \* RAGManager.embedding_model: "None" or "loaded"
    last,             \* the most recent call: its arguments and its outcome
    load_failed,      \* history: a construction of the model has failed
    retried,          \* history: a construction was attempted after a failure
    written,          \* history: text -> the vector of its latest set call
    set_here,         \* history: texts set on the current EmbeddingCache object
    saved,            \* history: texts whose latest set was followed by a complete save
    restored          \* history: the value of saved when the current object was built

vars == <<cache, metadata, cache_file, metadata_file, kb_files,
          api_docs, embedding_model, last,
          load_failed, retried, written, set_here, saved, restored>>

cacheVars == <<cache, metadata, cache_file, metadata_file>>
cacheHistory == <<written, set_here, saved, restored>>
managerVars == <<kb_files, api_docs, embedding_model, load_failed, retried>>

(***************************************************************************)
(* Bounds of the model.                                                    *)
(***************************************************************************)
\* Distinct texts the cache specification passes to set and get.
MaxTexts == 1
\* Largest top_k a search is called with (the smallest is -1).
MaxTopK == 2
\* Entries of the large stored cache of the set-calls specification, beyond
\* one flush period.
ExtraStored == 1

\* rag_manager.py line 99: the cache is written when its size is a multiple of 10.
FlushEvery == 10

(***************************************************************************)
(* Python values.                                                          *)
(***************************************************************************)
\* None where a vector is expected: a vector is a non-empty tuple.
None == <<>>

\* The empty dict.
EmptyDict == [k \in {} |-> None]

Min(a, b) == IF a <= b THEN a ELSE b
Max(a, b) == IF a >= b THEN a ELSE b

\* s[:k] for a list s and an integer k of either sign.
Slice(s, k) ==
    IF k >= 0 THEN SubSeq(s, 1, Min(k, Len(s)))
    ELSE SubSeq(s, 1, Max(0, Len(s) + k))

\* str.lower() over the model's alphabet.
LowerChar(c) == IF c = "A" THEN "a" ELSE IF c = "B" THEN "b" ELSE c
Lower(s) == [i \in 1..Len(s) |-> LowerChar(s[i])]

\* "w in s" for strings: w occurs in s as a contiguous substring.
IsSubstr(w, s) ==
    \E i \in 0..(Len(s) - Len(w)) : SubSeq(s, i + 1, i + Len(w)) = w

\* str.split(): the maximal runs of non-blank characters, in order.
RECURSIVE SplitFrom(_, _, _)
SplitFrom(s, i, word) ==
    IF i > Len(s) THEN (IF word = <<>> THEN <<>> ELSE <<word>>)
    ELSE IF s[i] = " "
         THEN (IF word = <<>> THEN <<>> ELSE <<word>>) \o SplitFrom(s, i + 1, <<>>)
         ELSE SplitFrom(s, i + 1, Append(word, s[i]))
Split(s) == SplitFrom(s, 1, <<>>)

\* set(list)
ToSet(s) == {s[i] : i \in 1..Len(s)}

\* f"{a} {b} {c}"
Join3(a, b, c) == a \o <<" ">> \o b \o <<" ">> \o c

(***************************************************************************)
(* Scores: exact rationals.                                                *)
(***************************************************************************)
Rat(n, d) == <<n, d>>
RatGeq(a, b) == a[1] * b[2] >= b[1] * a[2]
RatGt(a, b) == a[1] * b[2] > b[1] * a[2]

(***************************************************************************)
(* EmbeddingCache: rag_manager.py lines 42-104.                            *)
(*                                                                         *)
(* A file is [state, data]: state is "absent", "ok" (data is what was      *)
(* written), "corrupt" (a truncated or damaged file: the parser raises) or *)
(* "unreadable" (open raises).                                             *)
(***************************************************************************)
DefaultMetadata == [version |-> "1.0", model |-> "None", created |-> "None"]
StoredMetadata == [version |-> "1.0", model |-> "all-MiniLM-L6-v2", created |-> "t0"]

AbsentFile == [state |-> "absent", data |-> EmptyDict]
CorruptFile == [state |-> "corrupt", data |-> EmptyDict]
UnreadableFile == [state |-> "unreadable", data |-> EmptyDict]
OkFile(d) == [state |-> "ok", data |-> d]

\* open + pickle.load / json.load raise on such a file.
ReadRaises(f) == f.state \in {"corrupt", "unreadable"}

\* hashlib.md5(text.encode('utf-8')).hexdigest(): a digest of the text, taken
\* as free of collisions.
CacheKey(text) == <<"md5", text>>

\* dict[k] = v
DictSet(d, k, v) == [x \in (DOMAIN d) \cup {k} |-> IF x = k THEN v ELSE d[x]]

\* dict.get(k)
DictGet(d, k) == IF k \in DOMAIN d THEN d[k] ELSE None

\* _load_cache, through a variant that keeps the entries read from a good
\* cache file when the metadata file cannot be parsed.
LoadCacheKeepingEntries(cf, mf) ==
    IF ReadRaises(cf)
    THEN [cache |-> EmptyDict, metadata |-> DefaultMetadata, raised |-> FALSE]
    ELSE [cache |-> IF cf.state = "ok" THEN cf.data ELSE EmptyDict,
          metadata |-> IF mf.state = "ok" THEN mf.data ELSE DefaultMetadata,
          raised |-> FALSE]

\* _load_cache: one try block around both reads; any exception resets both
\* the cache and the metadata and is not raised again.
LoadCache(cf, mf) ==
    IF ReadRaises(cf) \/ ReadRaises(mf)
    THEN [cache |-> EmptyDict, metadata |-> DefaultMetadata, raised |-> FALSE]
    ELSE [cache |-> IF cf.state = "ok" THEN cf.data ELSE EmptyDict,
          metadata |-> IF mf.state = "ok" THEN mf.data ELSE DefaultMetadata,
          raised |-> FALSE]

\* _save_cache, through a variant that writes the metadata file only.
SaveCacheMetadataOnly(c, m, cf, mf, fault) ==
    [cache_file |-> cf, metadata_file |-> OkFile(m), save |-> "complete"]

\* _save_cache: the cache file is opened 'wb' (truncated) and dumped, then the
\* metadata file; the first exception ends the block and is swallowed.
\* save is "complete", "untouched" (no file changed) or "damaged".
SaveCache(c, m, cf, mf, fault) ==
    CASE fault = "cache_open" ->
           [cache_file |-> cf, metadata_file |-> mf, save |-> "untouched"]
      [] fault = "cache_write" ->
           [cache_file |-> CorruptFile, metadata_file |-> mf, save |-> "damaged"]
      [] fault = "metadata_write" ->
           [cache_file |-> OkFile(c), metadata_file |-> CorruptFile, save |-> "damaged"]
      [] OTHER ->
           [cache_file |-> OkFile(c), metadata_file |-> OkFile(m), save |-> "complete"]

\* get
CacheGet(c, text) == DictGet(c, CacheKey(text))

\* set, line 99: whether this call writes the files.
SaveDue(c, text) ==
    Cardinality(DOMAIN DictSet(c, CacheKey(text), None)) % FlushEvery = 0

\* set: the dictionary and the files after set(text, v).
CacheSet(c, m, cf, mf, fault, text, v) ==
    LET c2 == DictSet(c, CacheKey(text), v)
        sv == IF SaveDue(c, text)
              THEN SaveCache(c2, m, cf, mf, fault)
              ELSE [cache_file |-> cf, metadata_file |-> mf, save |-> "none"]
    IN  [cache |-> c2, cache_file |-> sv.cache_file,
         metadata_file |-> sv.metadata_file, save |-> sv.save]

\* The texts the history promises a later save writes with their latest vector.
InMemory == set_here \cup restored

\* saved after a write of the files with the given outcome, text being the text
\* of the set call that caused it (None for save()).
SavedAfter(outcome, sh, text) ==
    CASE outcome = "complete" -> sh \cup restored
      [] outcome = "damaged" -> {}
      [] OTHER -> saved \ {text}

\* EmbeddingCache.set(text, v); fault is how a write of the files, if this
\* call makes one, fails.
EmbeddingCacheSet(text, v, fault) ==
    LET r == CacheSet(cache, metadata, cache_file, metadata_file, fault, text, v)
    IN  /\ cache' = r.cache
        /\ cache_file' = r.cache_file
        /\ metadata_file' = r.metadata_file
        /\ written' = DictSet(written, text, v)
        /\ set_here' = set_here \cup {text}
        /\ saved' = SavedAfter(r.save, set_here \cup {text}, text)
        /\ last' = [op |-> "set", text |-> text, vector |-> v, result |-> None,
                    outcome |-> "ok"]
        /\ UNCHANGED <<metadata, restored>>
        /\ UNCHANGED managerVars

\* EmbeddingCache.get(text)
EmbeddingCacheGet(text) ==
    /\ last' = [op |-> "get", text |-> text, vector |-> None,
                result |-> CacheGet(cache, text), outcome |-> "ok"]
    /\ UNCHANGED cacheVars
    /\ UNCHANGED cacheHistory
    /\ UNCHANGED managerVars

\* EmbeddingCache.save()
EmbeddingCacheSave(fault) ==
    LET r == SaveCache(cache, metadata, cache_file, metadata_file, fault)
    IN  /\ cache_file' = r.cache_file
        /\ metadata_file' = r.metadata_file
        /\ saved' = SavedAfter(r.save, set_here, None)
        /\ last' = [op |-> "save", text |-> None, vector |-> None, result |-> None,
                    outcome |-> "ok"]
        /\ UNCHANGED <<cache, metadata, written, set_here, restored>>
        /\ UNCHANGED managerVars

\* A restart: the process ends and EmbeddingCache(cache_dir) is constructed
\* again over the same directory (__init__, lines 45-50).
EmbeddingCacheInit ==
    LET r == LoadCache(cache_file, metadata_file)
    IN  /\ cache' = r.cache
        /\ metadata' = r.metadata
        /\ set_here' = {}
        /\ restored' = saved
        /\ last' = [op |-> "init", text |-> None, vector |-> None, result |-> None,
                    outcome |-> IF r.raised THEN "raise" ELSE "ok"]
        /\ UNCHANGED <<cache_file, metadata_file, written, saved>>
        /\ UNCHANGED managerVars

\* Environment: a file of the cache directory is damaged or removed.
DamageCacheFile ==
    /\ \E f \in {AbsentFile, CorruptFile} :
          /\ cache_file /= f
          /\ cache_file' = f
    /\ saved' = {}
    /\ last' = [last EXCEPT !.op = "damage"]
    /\ UNCHANGED <<cache, metadata, metadata_file, written, set_here, restored>>
    /\ UNCHANGED managerVars

DamageMetadataFile ==
    /\ metadata_file /= UnreadableFile
    /\ metadata_file' = UnreadableFile
    /\ saved' = {}
    /\ last' = [last EXCEPT !.op = "damage"]
    /\ UNCHANGED <<cache, metadata, cache_file, written, set_here, restored>>
    /\ UNCHANGED managerVars

\* Environment: the ways a write of the files fails ("none": it does not).
DiskFaults == {"none", "cache_open", "cache_write", "metadata_write"}

(***************************************************************************)
(* The inputs of the cache specifications.                                 *)
(***************************************************************************)
\* The i-th text: i letters c.
TextOf(i, c) == [j \in 1..i |-> c]

OldVector == <<1, 0>>
FreshVector == <<0, 1>>
Vectors == {OldVector, FreshVector}

\* Texts passed to set and get.
Texts == {TextOf(i, "a") : i \in 1..MaxTexts}

\* A cache file written by an earlier process: n entries of other texts.
StoredDict(n, c) ==
    LET keys == {CacheKey(TextOf(i, c)) : i \in 1..n}
    IN  [k \in keys |-> OldVector]

NoLast == [op |-> "none", text |-> None, vector |-> None, result |-> None,
           outcome |-> "ok"]

\* The manager's variables, idle in the cache specifications.
ManagerIdle ==
    /\ kb_files = <<>>
    /\ api_docs = <<>>
    /\ embedding_model = "None"
    /\ load_failed = FALSE
    /\ retried = FALSE

\* EmbeddingCache(cache_dir) constructed over what an earlier process left.
InitCache ==
    /\ cache_file \in {AbsentFile, OkFile(StoredDict(FlushEvery - 1, "b"))}
    /\ metadata_file \in {AbsentFile, OkFile(StoredMetadata)}
    /\ cache = LoadCache(cache_file, metadata_file).cache
    /\ metadata = LoadCache(cache_file, metadata_file).metadata
    /\ last = NoLast
    /\ written = EmptyDict
    /\ set_here = {}
    /\ saved = {}
    /\ restored = {}
    /\ ManagerIdle

NextCache ==
    \/ \E text \in Texts, v \in Vectors, fault \in DiskFaults :
          EmbeddingCacheSet(text, v, fault)
    \/ \E text \in Texts : EmbeddingCacheGet(text)
    \/ \E fault \in DiskFaults : EmbeddingCacheSave(fault)
    \/ EmbeddingCacheInit
    \/ DamageCacheFile
    \/ DamageMetadataFile

SpecCache == InitCache /\ [][NextCache]_vars

(***************************************************************************)
(* Sequences of set calls on one EmbeddingCache object, over enough texts  *)
(* to pass a flush period: the cache starts empty or loaded from a file of *)
(* more than FlushEvery entries, and every call passes a fresh vector and  *)
(* meets no write error.                                                   *)
(***************************************************************************)
ManyTexts == {TextOf(i, "b") : i \in 1..(FlushEvery + ExtraStored)}

InitSetCalls ==
    /\ cache_file \in {AbsentFile, OkFile(StoredDict(FlushEvery + ExtraStored, "b"))}
    /\ metadata_file = IF cache_file.state = "ok" THEN OkFile(StoredMetadata)
                       ELSE AbsentFile
    /\ cache = LoadCache(cache_file, metadata_file).cache
    /\ metadata = LoadCache(cache_file, metadata_file).metadata
    /\ last = NoLast
    /\ written = EmptyDict
    /\ set_here = {}
    /\ saved = {}
    /\ restored = {}
    /\ ManagerIdle

NextSetCalls == \E text \in ManyTexts : EmbeddingCacheSet(text, FreshVector, "none")

SpecSetCalls == InitSetCalls /\ [][NextSetCalls]_vars

(***************************************************************************)
(* RAGManager: rag_manager.py lines 107-373.                               *)
(*                                                                         *)
(* An APIDocEntry keeps the fields the search and the lookups read:        *)
(* api_name, description, signature, usage_context and embedding.          *)
(***************************************************************************)
\* The embedding model's output for a text: one vector per text, the same on
\* every call. The vectors have integral norms, none of them zero.
EncodeTable == << <<3, 4>>, <<4, 3>>, <<1, 0>>, <<0, 1>>, <<-1, 0>> >>

CharCode(c) ==
    CASE c = "a" -> 1 [] c = "b" -> 2 [] c = "c" -> 3 [] c = "A" -> 4
      [] c = "B" -> 5 [] OTHER -> 0

RECURSIVE TextCode(_)
TextCode(text) ==
    IF text = <<>> THEN 0 ELSE CharCode(Head(text)) + TextCode(Tail(text))

\* embedding_model.encode(text)
Encode(text) == EncodeTable[(TextCode(text) % Len(EncodeTable)) + 1]

Dot(u, v) == u[1] * v[1] + u[2] * v[2]

\* np.linalg.norm(v), for a vector of integral norm
Norm(v) == CHOOSE n \in 0..25 : n * n = Dot(v, v)

\* np.dot(u, v) / (np.linalg.norm(u) * np.linalg.norm(v)), lines 259-261
Cosine(u, v) == Rat(Dot(u, v), Norm(u) * Norm(v))

\* api_data.get(field, ""), lines 152-161
Field(api_data, field) ==
    IF field \in DOMAIN api_data.fields THEN api_data.fields[field] ELSE <<>>

\* APIDocEntry(...), lines 151-162
NewDoc(api_data) ==
    [api_name |-> Field(api_data, "api_name"),
     description |-> Field(api_data, "description"),
     signature |-> Field(api_data, "signature"),
     usage_context |-> Field(api_data, "usage_context"),
     embedding |-> None]

\* The loop of lines 150-163 over one file's entries: the documents appended
\* before the first entry that is not a JSON object, whose .get raises and
\* ends the file's try block.
RECURSIVE DocsOfItems(_)
DocsOfItems(items) ==
    IF items = <<>> THEN <<>>
    ELSE IF Head(items).kind /= "object" THEN <<>>
    ELSE <<NewDoc(Head(items))>> \o DocsOfItems(Tail(items))

\* Lines 140-166 for one file: json.load raises on a malformed file.
DocsOfFile(file) == IF file.parses THEN DocsOfItems(file.items) ELSE <<>>

\* Lines 136-166: api_docs after the loop over the files, in rglob's order.
RECURSIVE DocsOfFiles(_)
DocsOfFiles(files) ==
    IF files = <<>> THEN <<>>
    ELSE DocsOfFile(Head(files)) \o DocsOfFiles(Tail(files))

\* Line 136 left out: the list as it stands.
NotCleared(docs) == docs

\* self.api_docs.clear(), line 136
Cleared(docs) == <<>>

\* Lines 136-166: api_docs after the clear and the loop, old being api_docs
\* before the call.
LoadedDocs(old, files) == Cleared(old) \o DocsOfFiles(files)

\* _init_embedding_model, lines 123-131: model is embedding_model before the
\* call, loads says whether SentenceTransformer(...) returns.
InitEmbeddingModel(model, loads) ==
    IF model /= "None"
    THEN [model |-> model, attempted |-> FALSE, failed |-> FALSE]
    ELSE [model |-> IF loads THEN "loaded" ELSE "None",
          attempted |-> TRUE, failed |-> ~loads]

\* f"{api_doc.api_name} {api_doc.description} {api_doc.usage_context}", line 186
CombinedText(doc) == Join3(doc.api_name, doc.description, doc.usage_context)

\* The loop of lines 184-200 from document i on, with the cache and its files
\* threaded through; encodes says whether encode returns.
RECURSIVE PrecomputeFrom(_, _, _, _, _, _, _)
PrecomputeFrom(docs, i, c, m, cf, mf, encodes) ==
    IF i > Len(docs)
    THEN [docs |-> docs, cache |-> c, cache_file |-> cf, metadata_file |-> mf]
    ELSE LET text == CombinedText(docs[i])
             cached == CacheGet(c, text)
         IN  IF cached /= None
             THEN PrecomputeFrom([docs EXCEPT ![i].embedding = cached],
                                 i + 1, c, m, cf, mf, encodes)
             ELSE IF ~encodes
             THEN PrecomputeFrom(docs, i + 1, c, m, cf, mf, encodes)
             ELSE LET r == CacheSet(c, m, cf, mf, "none", text, Encode(text))
                  IN  PrecomputeFrom([docs EXCEPT ![i].embedding = Encode(text)],
                                     i + 1, r.cache, m, r.cache_file,
                                     r.metadata_file, encodes)

\* _precompute_embeddings, lines 174-204, after _init_embedding_model.
PrecomputeEmbeddings(docs, model, c, m, cf, mf, encodes) ==
    IF model = "None"
    THEN [docs |-> docs, cache |-> c, cache_file |-> cf, metadata_file |-> mf]
    ELSE LET r == PrecomputeFrom(docs, 1, c, m, cf, mf, encodes)
             sv == SaveCache(r.cache, m, r.cache_file, r.metadata_file, "none")
         IN  [docs |-> r.docs, cache |-> r.cache, cache_file |-> sv.cache_file,
              metadata_file |-> sv.metadata_file]

(***************************************************************************)
(* The three strategies and their fusion. A SearchResult is                *)
(* [doc, api_name, similarity_score, match_type]: doc is the position in   *)
(* api_docs of the APIDocEntry the result refers to.                       *)
(***************************************************************************)
Result(docs, i, score, type) ==
    [doc |-> i, api_name |-> docs[i].api_name, similarity_score |-> score,
     match_type |-> type]

\* Insertion of x after the entries whose score is not smaller.
RECURSIVE InsertDesc(_, _)
InsertDesc(sorted, x) ==
    IF sorted = <<>> THEN <<x>>
    ELSE IF RatGt(x.similarity_score, Head(sorted).similarity_score)
         THEN <<x>> \o sorted
         ELSE <<Head(sorted)>> \o InsertDesc(Tail(sorted), x)

\* list.sort left out: the list as it stands.
Unsorted(s) == s

RECURSIVE SortFrom(_, _, _)
SortFrom(s, i, acc) ==
    IF i > Len(s) THEN acc ELSE SortFrom(s, i + 1, InsertDesc(acc, s[i]))

\* list.sort(key=lambda x: x.similarity_score, reverse=True): a stable sort.
SortDesc(s) == SortFrom(s, 1, <<>>)

\* The positions 1..n as a list.
Positions(docs) == [i \in 1..Len(docs) |-> i]

\* _semantic_search, lines 245-274, after _init_embedding_model.
SemanticSearch(docs, model, query, top_k, encodes) ==
    IF model = "None" \/ ~encodes THEN <<>>
    ELSE LET hit(i) == docs[i].embedding /= None
             found == SelectSeq(Positions(docs), hit)
             results == [n \in 1..Len(found) |->
                            Result(docs, found[n],
                                   Cosine(Encode(query), docs[found[n]].embedding),
                                   "semantic")]
         IN  Slice(SortDesc(results), top_k)

\* Lines 278-279
QueryWords(query) == ToSet(Split(Lower(query)))

\* Lines 284-293: the match count of one document.
KeywordMatches(doc, query) ==
    LET search_text == Lower(Join3(doc.api_name, doc.description, doc.signature))
        found == {w \in QueryWords(query) : IsSubstr(w, search_text)}
        in_name == {w \in found : IsSubstr(w, Lower(doc.api_name))}
    IN  Cardinality(found) + Cardinality(in_name)

\* _keyword_search, lines 276-304
KeywordSearch(docs, query, top_k) ==
    LET hit(i) == KeywordMatches(docs[i], query) > 0
        found == SelectSeq(Positions(docs), hit)
        results == [n \in 1..Len(found) |->
                       Result(docs, found[n],
                              Rat(KeywordMatches(docs[found[n]], query),
                                  Cardinality(QueryWords(query))),
                              "keyword")]
    IN  Slice(SortDesc(results), top_k)

\* Line 315: the document is a candidate of the context strategy.
ContextCandidate(doc, query) ==
    LET context_text == Lower(doc.usage_context)
    IN  \/ IsSubstr(Lower(query), context_text)
        \/ \E w \in ToSet(Split(Lower(query))) : IsSubstr(w, context_text)

\* Line 317 divides by len(query_lower.split()): ZeroDivisionError when a
\* document is a candidate and the query has no token.
ContextRaises(docs, query) ==
    /\ Len(Split(Lower(query))) = 0
    /\ \E i \in 1..Len(docs) : ContextCandidate(docs[i], query)

\* Line 317
ContextScore(doc, query) ==
    Rat(Cardinality(ToSet(Split(Lower(query)))
                      \cap ToSet(Split(Lower(doc.usage_context)))),
        Len(Split(Lower(query))))

\* _context_search, lines 306-326, when it does not raise.
ContextSearch(docs, query, top_k) ==
    LET hit(i) == ContextCandidate(docs[i], query)
        found == SelectSeq(Positions(docs), hit)
        results == [n \in 1..Len(found) |->
                       Result(docs, found[n], ContextScore(docs[found[n]], query),
                              "context")]
    IN  Slice(SortDesc(results), top_k)

\* Lines 234-239 from result i on: seen holds the api_names kept so far.
RECURSIVE DedupeFrom(_, _, _, _, _)
DedupeFrom(results, i, seen, unique, min_similarity) ==
    IF i > Len(results) THEN unique
    ELSE IF /\ results[i].api_name \notin seen
            /\ RatGeq(results[i].similarity_score, min_similarity)
         THEN DedupeFrom(results, i + 1, seen \cup {results[i].api_name},
                         Append(unique, results[i]), min_similarity)
         ELSE DedupeFrom(results, i + 1, seen, unique, min_similarity)

\* Lines 234-239 without the seen_apis test.
DedupeBySimilarityOnly(results, min_similarity) ==
    LET keep(r) == RatGeq(r.similarity_score, min_similarity)
    IN  SelectSeq(results, keep)

\* Lines 234-239
Dedupe(results, min_similarity) == DedupeFrom(results, 1, {}, <<>>, min_similarity)

\* The texts _semantic_search passes to embedding_model.encode, line 253: the
\* query, on every call that has a model. The embedding_cache is not read.
EncodeCalls(model, query) == IF model = "None" THEN <<>> ELSE <<query>>

\* search_apis, lines 206-243: model is embedding_model after the call of
\* _init_embedding_model that _semantic_search makes.
SearchApis(docs, model, query, top_k, min_similarity, encodes) ==
    IF docs = <<>>
    THEN [outcome |-> "list", results |-> <<>>, semantic |-> <<>>,
          keyword |-> <<>>, context |-> <<>>, encoded |-> <<>>]
    ELSE LET semantic_results == SemanticSearch(docs, model, query, top_k * 2, encodes)
             keyword_results == KeywordSearch(docs, query, top_k)
         IN  IF ContextRaises(docs, query)
             THEN [outcome |-> "ZeroDivisionError", results |-> <<>>,
                   semantic |-> semantic_results, keyword |-> keyword_results,
                   context |-> <<>>, encoded |-> EncodeCalls(model, query)]
             ELSE LET context_results == ContextSearch(docs, query, top_k)
                      unique_results ==
                          Dedupe(semantic_results \o keyword_results \o context_results,
                                 min_similarity)
                  IN  [outcome |-> "list",
                       results |-> Slice(SortDesc(unique_results), top_k),
                       semantic |-> semantic_results, keyword |-> keyword_results,
                       context |-> context_results,
                       encoded |-> EncodeCalls(model, query)]

\* get_api_by_name, lines 328-333: the position of the first match, 0 for None.
GetApiByName(docs, api_name) ==
    IF \E i \in 1..Len(docs) : docs[i].api_name = api_name
    THEN CHOOSE i \in 1..Len(docs) :
            /\ docs[i].api_name = api_name
            /\ \A j \in 1..(i - 1) : docs[j].api_name /= api_name
    ELSE 0

(***************************************************************************)
(* The calls on one RAGManager. The caller is synchronous: it makes a      *)
(* call, last holds the call and its result, and the caller takes the      *)
(* result (Return) before its next call.                                   *)
(***************************************************************************)
Idle == [op |-> "idle", outcome |-> "ok"]

\* load_knowledge_base(), lines 133-172, with files under knowledge_base_dir.
LoadKnowledgeBase(files, loads, encodes) ==
    LET docs == LoadedDocs(api_docs, files)
        im == IF docs = <<>>
              THEN [model |-> embedding_model, attempted |-> FALSE, failed |-> FALSE]
              ELSE InitEmbeddingModel(embedding_model, loads)
        r == IF docs = <<>>
             THEN [docs |-> docs, cache |-> cache, cache_file |-> cache_file,
                   metadata_file |-> metadata_file]
             ELSE PrecomputeEmbeddings(docs, im.model, cache, metadata, cache_file,
                                       metadata_file, encodes)
    IN  /\ last = Idle
        /\ kb_files' = files
        /\ api_docs' = r.docs
        /\ embedding_model' = im.model
        /\ cache' = r.cache
        /\ cache_file' = r.cache_file
        /\ metadata_file' = r.metadata_file
        /\ load_failed' = (load_failed \/ im.failed)
        /\ retried' = (retried \/ (load_failed /\ im.attempted))
        /\ last' = [op |-> "load", outcome |-> "ok", attempted |-> im.attempted,
                    before |-> api_docs]
        /\ UNCHANGED metadata
        /\ UNCHANGED cacheHistory

\* search_apis(query, top_k, min_similarity)
CallSearchApis(query, top_k, min_similarity, loads, encodes) ==
    LET im == IF api_docs = <<>>
              THEN [model |-> embedding_model, attempted |-> FALSE, failed |-> FALSE]
              ELSE InitEmbeddingModel(embedding_model, loads)
        r == SearchApis(api_docs, im.model, query, top_k, min_similarity, encodes)
    IN  /\ last = Idle
        /\ embedding_model' = im.model
        /\ load_failed' = (load_failed \/ im.failed)
        /\ retried' = (retried \/ (load_failed /\ im.attempted))
        /\ last' = [op |-> "search", query |-> query, top_k |-> top_k,
                    min_similarity |-> min_similarity, outcome |-> r.outcome,
                    results |-> r.results, semantic |-> r.semantic,
                    keyword |-> r.keyword, context |-> r.context,
                    attempted |-> im.attempted, encoded |-> r.encoded,
                    encodes |-> encodes,
                    cached |-> (CacheGet(cache, query) /= None)]
        /\ UNCHANGED <<kb_files, api_docs>>
        /\ UNCHANGED cacheVars
        /\ UNCHANGED cacheHistory

\* get_api_by_name(api_name)
CallGetApiByName(api_name) ==
    /\ last = Idle
    /\ last' = [op |-> "get_api_by_name", api_name |-> api_name, outcome |-> "ok",
                result |-> GetApiByName(api_docs, api_name)]
    /\ UNCHANGED managerVars
    /\ UNCHANGED cacheVars
    /\ UNCHANGED cacheHistory

\* The caller takes the result of its call.
Return ==
    /\ last /= Idle
    /\ last' = Idle
    /\ UNCHANGED managerVars
    /\ UNCHANGED cacheVars
    /\ UNCHANGED cacheHistory

(***************************************************************************)
(* The inputs of the manager specifications.                               *)
(***************************************************************************)
Object(fields) == [kind |-> "object", fields |-> fields]
Number == [kind |-> "number", fields |-> EmptyDict]

\* A file holding one JSON object, a file holding a JSON array, a file that
\* is not JSON.
ObjectFile(api_data) == [parses |-> TRUE, items |-> <<api_data>>]
ArrayFile(items) == [parses |-> TRUE, items |-> items]
MalformedFile == [parses |-> FALSE, items |-> <<>>]

DocA == Object([api_name |-> <<"a">>, description |-> <<"b">>,
                signature |-> <<>>, usage_context |-> <<"a", " ", "b">>])
\* The same api_name as DocA; no signature field.
DocA2 == Object([api_name |-> <<"a">>, description |-> <<"c">>,
                 usage_context |-> <<"c">>])
DocBc == Object([api_name |-> <<"B", "c">>, description |-> <<>>,
                 signature |-> <<"a">>,
                 usage_context |-> <<"b", " ", " ", "c">>])
\* Only an api_name.
DocC == Object([api_name |-> <<"c">>])

\* The directories a search specification loads.
SearchDirectories ==
    { <<ArrayFile(<<DocA, DocBc>>)>>,
      <<ObjectFile(DocA), ObjectFile(DocA2)>>,
      <<ArrayFile(<<DocBc, DocA2>>), ObjectFile(DocC), ObjectFile(DocA)>> }

\* The directories the load specification loads.
Directories ==
    SearchDirectories \cup
    { <<>>,
      <<ArrayFile(<<DocBc, Number, DocA>>), ObjectFile(DocC)>>,
      <<MalformedFile, ObjectFile(DocBc)>>,
      <<ObjectFile(DocC)>> }

\* The last one is the combined text of DocC.
Queries ==
    { <<>>, <<" ", " ">>, <<"a">>, <<"A", " ", "b">>, <<"b", "c">>, <<"c">>,
      <<"c", " ", " ">> }

TopKs == (-1)..MaxTopK

MinSimilarities == { Rat(0, 1), Rat(1, 2), Rat(1, 1) }

ApiNames == { <<"a">>, <<"B", "c">>, <<"c">>, <<"b">> }

\* RAGManager(knowledge_base_dir, cache_dir) constructed over an empty cache
\* directory, lines 110-121.
Init ==
    /\ cache_file = AbsentFile
    /\ metadata_file = AbsentFile
    /\ cache = LoadCache(cache_file, metadata_file).cache
    /\ metadata = LoadCache(cache_file, metadata_file).metadata
    /\ kb_files = <<>>
    /\ api_docs = <<>>
    /\ embedding_model = "None"
    /\ load_failed = FALSE
    /\ retried = FALSE
    /\ last = Idle
    /\ written = EmptyDict
    /\ set_here = {}
    /\ saved = {}
    /\ restored = {}

Next ==
    \/ \E files \in SearchDirectories, loads \in BOOLEAN, encodes \in BOOLEAN :
          LoadKnowledgeBase(files, loads, encodes)
    \/ \E query \in Queries, top_k \in TopKs, min_similarity \in MinSimilarities,
          loads \in BOOLEAN, encodes \in BOOLEAN :
          CallSearchApis(query, top_k, min_similarity, loads, encodes)
    \/ Return

Spec == Init /\ [][Next]_vars

NextLoad ==
    \/ \E files \in Directories, loads \in BOOLEAN, encodes \in BOOLEAN :
          LoadKnowledgeBase(files, loads, encodes)
    \/ \E api_name \in ApiNames : CallGetApiByName(api_name)
    \/ Return

SpecLoad == Init /\ [][NextLoad]_vars

(***************************************************************************)
(* Claims about the EmbeddingCache.                                        *)
(***************************************************************************)
\* The file holds text with the vector the dictionary holds for it.
Durable(text) ==
    /\ cache_file.state = "ok"
    /\ CacheKey(text) \in DOMAIN cache_file.data
    /\ cache_file.data[CacheKey(text)] = CacheGet(cache, text)

\* The texts set so far whose entry is in memory but absent or stale in the file.
Unsaved == {text \in DOMAIN written :
               /\ CacheKey(text) \in DOMAIN cache
               /\ ~Durable(text)}

\* C7: after any sequence of set calls, from an empty or a loaded cache of any
\* size, at most FlushEvery - 1 = 9 inserted entries are in memory but absent
\* or stale in the cache file.
C7_AtMostNineUnsaved == Cardinality(Unsaved) <= FlushEvery - 1

\* C8 as claimed: whenever get(text) follows a set(text, v), in the same
\* process or after a restart, it returns the v of the latest set(text, _).
C8_RoundTripAcrossRestart ==
    (last.op = "get" /\ last.text \in DOMAIN written)
        => last.result = written[last.text]

\* C8 amended: get(text) returns the v of the latest set(text, v) when that
\* set was made on this object, or when it was made before the restart that
\* built this object and a complete write of both files followed it, with no
\* damage to the files between that write and the restart.
C8_RoundTrip ==
    (last.op = "get" /\ last.text \in InMemory)
        => last.result = written[last.text]

\* C8's case: a get after a restart returns the vector set before it.
C8_Witness ==
    /\ last.op = "get"
    /\ last.text \in restored \ set_here
    /\ last.result = written[last.text]
    /\ last.result = FreshVector

\* C9: constructing an EmbeddingCache never raises; when reading either file
\* raises, the cache is empty and the metadata is the default; when neither
\* read raises, the cache is the stored mapping (empty when there is no file)
\* and the metadata is the stored metadata (the default when there is no file).
C9_LoadNeverFails ==
    last.op = "init" =>
        /\ last.outcome = "ok"
        /\ (ReadRaises(cache_file) \/ ReadRaises(metadata_file))
              => (cache = EmptyDict /\ metadata = DefaultMetadata)
        /\ (~ReadRaises(cache_file) /\ ~ReadRaises(metadata_file))
              => /\ cache = (IF cache_file.state = "ok" THEN cache_file.data
                             ELSE EmptyDict)
                 /\ metadata = (IF metadata_file.state = "ok" THEN metadata_file.data
                                ELSE DefaultMetadata)

\* C9's case: the cache file holds entries, the metadata file cannot be read,
\* and the object is constructed with an empty cache.
C9_Witness ==
    /\ last.op = "init"
    /\ last.outcome = "ok"
    /\ cache_file.state = "ok"
    /\ DOMAIN cache_file.data /= {}
    /\ ReadRaises(metadata_file)
    /\ cache = EmptyDict

(***************************************************************************)
(* Claims about RAGManager.search_apis.                                    *)
(***************************************************************************)
Searched == last.op = "search"

Returned == Searched /\ last.outcome = "list"

\* C1: for top_k >= 0, the list search_apis returns has at most top_k
\* results, is in descending order of similarity_score, and holds no result
\* whose similarity_score is below min_similarity.
C1_BoundedSortedFiltered ==
    (Returned /\ last.top_k >= 0) =>
        /\ Len(last.results) <= last.top_k
        /\ \A i \in 1..Len(last.results), j \in 1..Len(last.results) :
              i < j => RatGeq(last.results[i].similarity_score,
                              last.results[j].similarity_score)
        /\ \A i \in 1..Len(last.results) :
              RatGeq(last.results[i].similarity_score, last.min_similarity)

\* C1's case: the fused list held a semantic result before a better result
\* of another strategy and a result below the threshold; the list returned is
\* full, reordered and filtered.
C1_Witness ==
    /\ Returned
    /\ last.top_k = 1
    /\ Len(last.results) = 1
    /\ last.results[1].match_type /= "semantic"
    /\ \E i \in 1..Len(last.semantic) :
          /\ RatGeq(last.semantic[i].similarity_score, last.min_similarity)
          /\ RatGt(last.results[1].similarity_score, last.semantic[i].similarity_score)
    /\ \E i \in 1..Len(last.semantic) :
          ~RatGeq(last.semantic[i].similarity_score, last.min_similarity)

\* C2: no two results of the list search_apis returns have the same api_name.
C2_NoDuplicateNames ==
    Returned =>
        \A i \in 1..Len(last.results), j \in 1..Len(last.results) :
            i /= j => last.results[i].api_name /= last.results[j].api_name

\* C2's case: two documents of the corpus with the same api_name are both
\* candidates above the threshold, and the name is returned once.
C2_Witness ==
    /\ Returned
    /\ last.top_k = MaxTopK
    /\ \E i \in 1..Len(last.semantic), j \in 1..Len(last.semantic) :
          /\ last.semantic[i].doc /= last.semantic[j].doc
          /\ last.semantic[i].api_name = last.semantic[j].api_name
          /\ RatGeq(last.semantic[i].similarity_score, last.min_similarity)
          /\ RatGeq(last.semantic[j].similarity_score, last.min_similarity)
          /\ \E n \in 1..Len(last.results) :
                last.results[n].api_name = last.semantic[i].api_name

\* C3: a query with no token, against a non-empty corpus (and with a valid
\* top_k), makes search_apis return a list with no keyword and no context
\* result; it does not raise.
C3_EmptyQueryReturnsList ==
    (/\ Searched
     /\ last.top_k >= 0
     /\ Split(Lower(last.query)) = <<>>
     /\ api_docs /= <<>>) =>
        /\ last.outcome = "list"
        /\ \A i \in 1..Len(last.results) : last.results[i].match_type = "semantic"

\* C4: search_apis with a negative top_k ends with a validation error and
\* no list; with any other arguments it returns a list.
C4_NegativeTopKRejected ==
    Searched =>
        /\ last.top_k < 0 => last.outcome = "ValidationError"
        /\ last.top_k >= 0 => last.outcome = "list"

\* C5: once a construction of the embedding model has failed, no later call
\* attempts it again and the model stays unavailable.
C5_UnavailableForGood ==
    load_failed => (~retried /\ embedding_model = "None")

\* A document whose keyword or context score reaches min_similarity.
HasMatch(docs, query, min_similarity) ==
    \E i \in 1..Len(docs) :
        \/ /\ KeywordMatches(docs[i], query) > 0
           /\ RatGeq(Rat(KeywordMatches(docs[i], query), Cardinality(QueryWords(query))),
                     min_similarity)
        \/ /\ Len(Split(Lower(query))) > 0
           /\ ContextCandidate(docs[i], query)
           /\ RatGeq(ContextScore(docs[i], query), min_similarity)

\* C6: with the embedding model unavailable, search_apis (called with a valid
\* top_k) does not fail, the semantic strategy gives no result, and a query
\* with a keyword or context score of at least min_similarity on some
\* document (top_k >= 1) gets a non-empty list.
C6_DegradesGracefully ==
    (Searched /\ last.top_k >= 0 /\ embedding_model = "None") =>
        /\ last.outcome = "list"
        /\ last.semantic = <<>>
        /\ (last.top_k >= 1 /\ HasMatch(api_docs, last.query, last.min_similarity))
              => last.results /= <<>>

\* The part of C6 that the code keeps: when the search returns, the semantic
\* strategy gave nothing and a matching query gets a non-empty list.
DegradedSearchStillMatches ==
    (Returned /\ embedding_model = "None") =>
        /\ last.semantic = <<>>
        /\ (last.top_k >= 1 /\ HasMatch(api_docs, last.query, last.min_similarity))
              => last.results /= <<>>

(***************************************************************************)
(* Claims about RAGManager.load_knowledge_base.                            *)
(***************************************************************************)
\* C10: no two entries of api_docs have the same api_name, and
\* get_api_by_name returns the last-loaded document of the name it is given.
C10_UniqueNames ==
    /\ \A i \in 1..Len(api_docs), j \in 1..Len(api_docs) :
          i /= j => api_docs[i].api_name /= api_docs[j].api_name
    /\ (last.op = "get_api_by_name" /\ last.result /= 0) =>
          \A j \in 1..Len(api_docs) :
              api_docs[j].api_name = last.api_name => j <= last.result

\* The fields of the entries that the files give: the list without the
\* embeddings that _precompute_embeddings attaches.
WithoutEmbeddings(docs) ==
    [i \in 1..Len(docs) |-> [docs[i] EXCEPT !.embedding = None]]

\* C11: after a load_knowledge_base call, whatever calls came before it,
\* api_docs holds exactly the documents parsed from the directory's files
\* during that call, each once and in the files' order, and nothing that an
\* earlier call left.
C11_ReloadReplaces ==
    last.op = "load" => WithoutEmbeddings(api_docs) = DocsOfFiles(kb_files)

\* C11's case: a second load, over a directory that no longer gives a
\* document the first load appended; the list holds the new documents only.
C11_Witness ==
    /\ last.op = "load"
    /\ api_docs /= <<>>
    /\ \E i \in 1..Len(last.before) :
          \A j \in 1..Len(api_docs) :
              api_docs[j].api_name /= last.before[i].api_name
    /\ \E j \in 1..Len(api_docs) :
          \A i \in 1..Len(last.before) :
              api_docs[j].api_name /= last.before[i].api_name

(***************************************************************************)
(* Claims about the fusion of the strategies in search_apis.               *)
(***************************************************************************)
\* The strategy's list holds a result for document doc.
CandidateOf(list, doc) == \E i \in 1..Len(list) : list[i].doc = doc

\* C12: whenever a document is in the semantic strategy's list and in the
\* keyword strategy's list for a query, a result that search_apis returns
\* for that document is the semantic one, with the semantic score and
\* match_type "semantic", for every min_similarity.
C12_SemanticEntryKept ==
    (Returned /\ last.top_k >= 0) =>
        \A n \in 1..Len(last.results) :
            (/\ CandidateOf(last.semantic, last.results[n].doc)
             /\ CandidateOf(last.keyword, last.results[n].doc))
            => /\ last.results[n].match_type = "semantic"
               /\ \E i \in 1..Len(last.semantic) :
                     last.semantic[i] = last.results[n]

(***************************************************************************)
(* Claims about parse failures in load_knowledge_base.                     *)
(***************************************************************************)
\* The entries of the files that are well-formed documents: JSON objects in
\* a file that json.load reads.
WellFormedIn(file) ==
    {NewDoc(file.items[i]) :
        i \in {n \in 1..Len(file.items) :
                  file.parses /\ file.items[n].kind = "object"}}

WellFormed(files) == UNION {WellFormedIn(files[f]) : f \in 1..Len(files)}

\* C13: load_knowledge_base does not raise, and after it every well-formed
\* document of the directory's files is in api_docs, also one that follows
\* or precedes an entry of its file that fails to parse.
C13_FailuresIsolatedPerDocument ==
    last.op = "load" =>
        /\ last.outcome = "ok"
        /\ \A doc \in WellFormed(kb_files) :
              \E j \in 1..Len(api_docs) : WithoutEmbeddings(api_docs)[j] = doc

(***************************************************************************)
(* Claims about the embedding of the query.                                *)
(***************************************************************************)
\* C14: in a search with a model (one that loaded at the first attempt), a
\* query whose text is in the embedding cache (a document's combined text)
\* is served from the cache, with no call of the model for it, and a query
\* the model embeds is in the cache after the search.
C14_QueryEmbeddingCached ==
    (/\ Returned
     /\ last.top_k >= 0
     /\ api_docs /= <<>>
     /\ embedding_model /= "None"
     /\ ~load_failed) =>
        /\ last.cached => last.encoded = <<>>
        /\ (~last.cached /\ last.encodes) =>
              CacheGet(cache, last.query) = Encode(last.query)

====
